---- MODULE Spec2Model ----
(***************************************************************************)
(* NextGo: the project scaffolding generator of src/main.go.               *)
(*                                                                         *)
(* A string is a sequence of symbols.  A symbol is one character ("/",     *)
(* "~", ".", " ", "\n") or a whole name that the program never looks       *)
(* inside ("pkg", "router.go", "p").  The filesystem is the set of          *)
(* directories and the map from file path to content; a file's content is  *)
(* a sequence of bytes.                                                    *)
(***************************************************************************)
EXTENDS Naturals, Sequences, FiniteSets, TLC

VARIABLES
    pc,               \* the step main is at
    at,               \* position inside the populate loops: "loop", "create", "write"
    steps,            \* history: the steps entered, in order
    out,              \* console: the prompt, info and fatal lines written, as <<kind, text>>
                      \* (a "Created ..." line is written exactly when its path enters
                      \* fsDirs or fsFiles, and is not kept a second time)
    airInstalled,     \* environment: exec.LookPath("air") succeeds
    userKnown,        \* environment: user.Current() succeeds
    baseInput,        \* main's baseInput
    expandedBasePath, \* main's expandedBasePath
    projectName,      \* main's projectName
    basePath,         \* main's basePath
    fsDirs,           \* filesystem: the directories
    fsFiles,          \* filesystem: file path -> content
    todo,             \* createDirectoriesAndFiles: keys of dirs the range loop has not visited
    dirPath,          \* createDirectoriesAndFiles: dirPath of the current iteration
    pending,          \* file names the current inner/root loop still has to create
    f,                \* the file most recently opened by os.Create (<<>>: none)
    cmds,             \* external commands run so far, with their outcome
    stdin,            \* history: the lines read from standard input so far
    run,              \* which invocation of the program this is
    start             \* history: the filesystem when this invocation started, and the
                      \* inputs of the invocations that succeeded before it

vars == <<pc, at, steps, out, airInstalled, userKnown, baseInput, expandedBasePath,
          projectName, basePath, fsDirs, fsFiles, todo, dirPath, pending, f, cmds,
          stdin, run, start>>

----------------------------------------------------------------------------
(* Bounds *)

\* Longest template, in bytes; template lengths run over 0..MaxTemplateLen.
MaxTemplateLen == 2

\* Invocations of the program on one filesystem (SpecRerun).
MaxRuns == 2

----------------------------------------------------------------------------
(* strings, package strings and path/filepath *)

Last(s) == s[Len(s)]

Front(s) == SubSeq(s, 1, Len(s) - 1)

\* unicode.IsSpace, on the symbols used here
IsSpace(c) == c \in {" ", "\t", "\n", "\r"}

RECURSIVE TrimLeft(_)
TrimLeft(s) ==
    IF s # <<>> /\ IsSpace(Head(s)) THEN TrimLeft(Tail(s)) ELSE s

RECURSIVE TrimRight(_)
TrimRight(s) ==
    IF s # <<>> /\ IsSpace(Last(s)) THEN TrimRight(Front(s)) ELSE s

\* variant with a fault: only the line's "\n" is cut off
TrimNewline(s) ==
    IF s # <<>> /\ Last(s) = "\n" THEN Front(s) ELSE s

\* strings.TrimSpace
TrimSpace(s) == TrimRight(TrimLeft(s))

\* strings.HasPrefix
HasPrefix(s, p) == Len(s) >= Len(p) /\ SubSeq(s, 1, Len(p)) = p

\* the components of a path: the pieces between separators (empty ones included)
RECURSIVE SplitAcc(_, _, _)
SplitAcc(s, cur, acc) ==
    IF s = <<>> THEN Append(acc, cur)
    ELSE IF Head(s) = "/" THEN SplitAcc(Tail(s), <<>>, Append(acc, cur))
    ELSE SplitAcc(Tail(s), Append(cur, Head(s)), acc)

Split(s) == SplitAcc(s, <<>>, <<>>)

RECURSIVE JoinSep(_)
JoinSep(comps) ==
    IF comps = <<>> THEN <<>>
    ELSE IF Len(comps) = 1 THEN comps[1]
    ELSE comps[1] \o <<"/">> \o JoinSep(Tail(comps))

DotDot == <<".", ".">>

\* filepath.Clean's scan: drop empty and "." components, resolve ".."
RECURSIVE CleanAcc(_, _, _)
CleanAcc(comps, kept, rooted) ==
    IF comps = <<>> THEN kept
    ELSE LET c == Head(comps)
             rest == Tail(comps)
         IN  IF c = <<>> \/ c = <<".">> THEN CleanAcc(rest, kept, rooted)
             ELSE IF c = DotDot
                  THEN IF kept # <<>> /\ Last(kept) # DotDot
                       THEN CleanAcc(rest, Front(kept), rooted)
                       ELSE IF rooted THEN CleanAcc(rest, kept, rooted)
                       ELSE CleanAcc(rest, Append(kept, c), rooted)
             ELSE CleanAcc(rest, Append(kept, c), rooted)

\* filepath.Clean
Clean(path) ==
    IF path = <<>> THEN <<".">>
    ELSE LET rooted == Head(path) = "/"
             kept == CleanAcc(Split(path), <<>>, rooted)
         IN  IF rooted THEN <<"/">> \o JoinSep(kept)
             ELSE IF kept = <<>> THEN <<".">>
             ELSE JoinSep(kept)

\* filepath.Join of two elements: empty elements are ignored, the result is cleaned
Join(a, b) ==
    IF a = <<>> /\ b = <<>> THEN <<>>
    ELSE IF a = <<>> THEN Clean(b)
    ELSE IF b = <<>> THEN Clean(a)
    ELSE Clean(a \o <<"/">> \o b)

\* the directory that holds the last component of a cleaned path
ParentDir(p) ==
    LET comps == Split(p)
    IN  IF Head(p) = "/"
        THEN IF Len(comps) <= 2 THEN <<"/">> ELSE JoinSep(Front(comps))
        ELSE IF Len(comps) <= 1 THEN <<".">> ELSE JoinSep(Front(comps))

----------------------------------------------------------------------------
(* the program's tables *)

\* dirs of createDirectoriesAndFiles: directory -> the files to create in it
DirSpec ==
    (<<"cmd">> :> << <<"main.go">> >>)
    @@ (<<"pkg", "/", "router">> :> << <<"router.go">> >>)
    @@ (<<"pkg", "/", "middleware">> :> << <<"middleware.go">> >>)
    @@ (<<"pkg", "/", "handlers">> :> << <<"handlers.go">> >>)
    @@ (<<"pkg", "/", "models">> :> << <<"models.go">> >>)
    @@ (<<"pkg", "/", "db">> :> << <<"db.go">> >>)
    @@ (<<"config">> :> << <<"config.yaml">> >>)

\* dockerFiles of createDirectoriesAndFiles
dockerFiles ==
    << <<"Dockerfile">>, <<"docker-compose.yaml">>, <<"Makefile">>, <<".air.toml">> >>

Tmpl(name) == <<"templates", "/", name>>

\* templateMapping of getTemplateFileName
templateMapping ==
    (<<"main.go">> :> Tmpl("main.txt"))
    @@ (<<"router.go">> :> Tmpl("routes.txt"))
    @@ (<<"middleware.go">> :> Tmpl("middleware.txt"))
    @@ (<<"handlers.go">> :> Tmpl("handlers.txt"))
    @@ (<<"models.go">> :> Tmpl("models.txt"))
    @@ (<<"db.go">> :> Tmpl("db.txt"))
    @@ (<<"Dockerfile">> :> Tmpl("dockers.txt"))
    @@ (<<"docker-compose.yaml">> :> Tmpl("docker.txt"))
    @@ (<<"Makefile">> :> Tmpl("makerun.txt"))
    @@ (<<".air.toml">> :> Tmpl("air.txt"))
    @@ (<<"config.yaml">> :> Tmpl("config.txt"))

\* getTemplateFileName: a Go map lookup, "" for a key the map lacks
getTemplateFileName(fileName) ==
    IF fileName \in DOMAIN templateMapping THEN templateMapping[fileName] ELSE <<>>

----------------------------------------------------------------------------
(* the environment the program starts in *)

\* usr.HomeDir of the current user
HomeDir == <<"/", "h">>

\* the template resources the working directory holds when it holds them
TemplateNames ==
    <<"main.txt", "routes.txt", "middleware.txt", "handlers.txt", "models.txt",
      "db.txt", "dockers.txt", "docker.txt", "makerun.txt", "air.txt", "config.txt">>

\* template number i is i % (MaxTemplateLen + 1) bytes long, so some are empty;
\* byte k of a template is the pair <<template, k>>: no two templates share a byte
TemplateContent(i) ==
    [k \in 1..(i % (MaxTemplateLen + 1)) |-> <<TemplateNames[i], k>>]

TemplatePaths == {Tmpl(TemplateNames[i]) : i \in 1..Len(TemplateNames)}

TemplateStore ==
    [p \in TemplatePaths |->
        TemplateContent(CHOOSE i \in 1..Len(TemplateNames) : Tmpl(TemplateNames[i]) = p)]

NoFiles == [p \in {} |-> <<>>]

\* directories that exist before the first run
InitialDirs ==
    { <<"/">>, <<".">>, DotDot, HomeDir, <<"/", "p">>,
      <<"/", "p", "/", "y">>, <<"/", "h", "/", "y">>, <<"y">> }

\* lines the user may type at the base-path prompt (a line ends with its "\n"
\* unless input ended first)
BaseInputs ==
    { <<>>,
      <<"\n">>,
      <<" ", "\t", "\n">>,
      <<" ", "/", "p", " ", "\n">>,
      <<"/", "q", "\n">>,
      <<"~", "/", "\n">>,
      <<"~", "\n">>,
      <<"~", "p", "/", "\n">>,
      <<"~", "/", "p", "/", "/", ".", "\n">>,
      <<".", "\n">> }

\* lines the user may type at the project-name prompt
NameInputs ==
    { <<"\n">>, <<>>, <<" ", "x", " ", "\n">>, <<"y">>,
      <<".", ".", "/", "p", "/", "z", "\n">> }

----------------------------------------------------------------------------
(* system calls: each yields the set of outcomes the operating system can give *)

\* the directories os.MkdirAll has to make for p, outermost first
RECURSIVE MissingChain(_)
MissingChain(p) ==
    IF p \in fsDirs THEN <<>>
    ELSE IF ParentDir(p) = p THEN <<p>>
    ELSE Append(MissingChain(ParentDir(p)), p)

\* os.MkdirAll: makes the missing ancestors, then p; an error can stop it at any
\* of them, and does where the path is a file; nothing to make is success
MkdirAll(p) ==
    LET chain == MissingChain(p)
        free == {k \in 0..Len(chain) : \A i \in 1..k : chain[i] \notin DOMAIN fsFiles}
    IN  {[ok |-> k = Len(chain), dirs |-> fsDirs \cup {chain[i] : i \in 1..k}] : k \in free}

\* variant with a fault: the project directory made with os.MkdirAll
MkdirRecursive(p) == MkdirAll(p)

\* os.Mkdir: fails when the path exists or its parent does not, or on any other error
Mkdir(p) ==
    {[ok |-> FALSE, dirs |-> fsDirs]}
    \cup (IF p \notin fsDirs /\ p \notin DOMAIN fsFiles /\ ParentDir(p) \in fsDirs
          THEN {[ok |-> TRUE, dirs |-> fsDirs \cup {p}]}
          ELSE {})

\* os.Create: opens for writing, creating or truncating
Create(p) ==
    {[ok |-> FALSE, files |-> fsFiles]}
    \cup (IF p \notin fsDirs /\ ParentDir(p) \in fsDirs
          THEN {[ok |-> TRUE, files |-> (p :> <<>>) @@ fsFiles]}
          ELSE {})

\* ioutil.ReadFile
ReadFile(p) ==
    {[ok |-> FALSE, content |-> <<>>]}
    \cup (IF p \in DOMAIN fsFiles THEN {[ok |-> TRUE, content |-> fsFiles[p]]} ELSE {})

\* (*os.File).Write on a file just created: all of content, or an error after
\* only the first n bytes
Write(p, content) ==
    {[ok |-> n = Len(content), files |-> (p :> SubSeq(content, 1, n)) @@ fsFiles] :
        n \in 0..Len(content)}

----------------------------------------------------------------------------
(* the steps of main *)

Order ==
    <<"ToolCheck", "CollectBasePath", "CollectProjectName", "CreateBaseDir",
      "PopulateDirs", "PopulateRootFiles", "InitModule", "TidyModule", "Done">>

Enter(step) ==
    /\ pc' = step
    /\ steps' = Append(steps, step)

\* log.Fatal / log.Fatalf after the console shows sofar: the message, then os.Exit(1)
Fatal(sofar, msg) ==
    /\ pc' = "Aborted"
    /\ steps' = Append(steps, "Aborted")
    /\ out' = Append(sofar, <<"fatal", msg>>)

\* the message of ensureAirInstalled
AirInstallHint ==
    "Error: 'air' is not installed. Please install it by running: curl -sSfL https://raw.githubusercontent.com/air-verse/air/master/install.sh | sh -s -- -b $(go env GOPATH)/bin"

\* variant with a fault: the error of exec.LookPath is dropped
checkCommandExistsAlways(cmd) == cmd = "air"

\* checkCommandExists
checkCommandExists(cmd) == cmd = "air" /\ airInstalled

\* variant with a fault: any leading "~" is expanded, not only "~/"
ExpandTildeAnyTilde(path) ==
    IF HasPrefix(path, <<"~">>)
    THEN IF ~userKnown
         THEN [path |-> <<>>, err |-> TRUE]
         ELSE [path |-> Join(HomeDir, SubSeq(path, 3, Len(path))), err |-> FALSE]
    ELSE [path |-> path, err |-> FALSE]

\* ExpandTilde: the pair (path, err)
ExpandTilde(path) ==
    IF HasPrefix(path, <<"~", "/">>)
    THEN IF ~userKnown
         THEN [path |-> <<>>, err |-> TRUE]
         ELSE [path |-> Join(HomeDir, SubSeq(path, 3, Len(path))), err |-> FALSE]
    ELSE [path |-> path, err |-> FALSE]

Init ==
    /\ pc = "ToolCheck"
    /\ at = "loop"
    /\ steps = <<"ToolCheck">>
    /\ out = <<>>
    /\ airInstalled \in BOOLEAN
    /\ userKnown \in BOOLEAN
    /\ baseInput = <<>>
    /\ expandedBasePath = <<>>
    /\ projectName = <<>>
    /\ basePath = <<>>
    /\ \E templates \in BOOLEAN :
          /\ fsDirs = InitialDirs \cup (IF templates THEN {<<"templates">>} ELSE {})
          /\ fsFiles = IF templates THEN TemplateStore ELSE NoFiles
    /\ todo = {}
    /\ dirPath = <<>>
    /\ pending = <<>>
    /\ f = <<>>
    /\ cmds = <<>>
    /\ stdin = <<>>
    /\ run = 1
    /\ start = [dirs |-> fsDirs, files |-> fsFiles, succeeded |-> {}]

\* main, line 166
ensureAirInstalled ==
    /\ pc = "ToolCheck"
    /\ \/ /\ checkCommandExists("air")
          /\ Enter("CollectBasePath")
          /\ out' = out
       \/ /\ ~checkCommandExists("air")
          /\ Fatal(out, AirInstallHint)
    /\ UNCHANGED <<at, airInstalled, userKnown, baseInput, expandedBasePath, projectName,
                   basePath, fsDirs, fsFiles, todo, dirPath, pending, f, cmds, stdin, run, start>>

\* main, lines 167-182
CollectBasePath ==
    /\ pc = "CollectBasePath"
    /\ \E line \in BaseInputs :
          LET trimmed == TrimSpace(line)
              prompted == Append(out, <<"prompt", "Enter the base path where you want to create the project: ">>)
              expanded == ExpandTilde(trimmed)
          IN  /\ stdin' = Append(stdin, line)
              /\ baseInput' = trimmed
              /\ \/ /\ trimmed = <<>>
                    /\ Fatal(prompted, "Base path cannot be empty")
                    /\ expandedBasePath' = expandedBasePath
                 \/ /\ trimmed # <<>>
                    /\ expanded.err
                    /\ Fatal(prompted, "Error expanding base path")
                    /\ expandedBasePath' = expanded.path
                 \/ /\ trimmed # <<>>
                    /\ ~expanded.err
                    /\ Enter("CollectProjectName")
                    /\ out' = prompted
                    /\ expandedBasePath' = expanded.path
    /\ UNCHANGED <<at, airInstalled, userKnown, projectName, basePath, fsDirs, fsFiles,
                   todo, dirPath, pending, f, cmds, run, start>>

\* main, lines 184-191
CollectProjectName ==
    /\ pc = "CollectProjectName"
    /\ \E line \in NameInputs :
          LET trimmed == TrimSpace(line)
              prompted == Append(out, <<"prompt", "Enter the project name: ">>)
          IN  /\ stdin' = Append(stdin, line)
              /\ projectName' = trimmed
              /\ \/ /\ trimmed = <<>>
                    /\ Fatal(prompted, "Project name cannot be empty")
                 \/ /\ trimmed # <<>>
                    /\ Enter("CreateBaseDir")
                    /\ out' = prompted
    /\ UNCHANGED <<at, airInstalled, userKnown, baseInput, expandedBasePath, basePath,
                   fsDirs, fsFiles, todo, dirPath, pending, f, cmds, run, start>>

\* variant with a fault: a project directory that exists already is accepted
CreateBaseDirIgnoresExist ==
    /\ pc = "CreateBaseDir"
    /\ basePath' = Join(expandedBasePath, projectName)
    /\ \E r \in Mkdir(basePath') :
          /\ fsDirs' = r.dirs
          /\ \/ /\ r.ok \/ basePath' \in fsDirs
                /\ Enter("PopulateDirs")
                /\ out' = out
                /\ todo' = DOMAIN DirSpec
                /\ at' = "loop"
             \/ /\ ~r.ok
                /\ basePath' \notin fsDirs
                /\ Fatal(out, "Failed to create project base directory")
                /\ UNCHANGED <<todo, at>>
    /\ UNCHANGED <<airInstalled, userKnown, baseInput, expandedBasePath, projectName,
                   fsFiles, dirPath, pending, f, cmds, stdin, run, start>>

\* main, lines 193-202: the project directory, then the call of
\* createDirectoriesAndFiles, whose range loop starts with every key of dirs ahead
CreateBaseDir ==
    /\ pc = "CreateBaseDir"
    /\ basePath' = Join(expandedBasePath, projectName)
    /\ \E r \in Mkdir(basePath') :
          /\ fsDirs' = r.dirs
          /\ \/ /\ r.ok
                /\ Enter("PopulateDirs")
                /\ out' = out
                /\ todo' = DOMAIN DirSpec
                /\ at' = "loop"
             \/ /\ ~r.ok
                /\ Fatal(out, "Failed to create project base directory")
                /\ UNCHANGED <<todo, at>>
    /\ UNCHANGED <<airInstalled, userKnown, baseInput, expandedBasePath, projectName,
                   fsFiles, dirPath, pending, f, cmds, stdin, run, start>>

\* variant with a fault: the error of os.MkdirAll is logged and the loop goes on
DirsMkdirAllLogsOnly ==
    /\ pc = "PopulateDirs"
    /\ at = "loop"
    /\ \E dir \in todo :
          /\ dirPath' = Join(basePath, dir)
          /\ \E r \in MkdirAll(dirPath') :
                /\ fsDirs' = r.dirs
                /\ todo' = todo \ {dir}
                /\ pending' = DirSpec[dir]
                /\ at' = IF pending' = <<>> THEN "loop" ELSE "create"
                /\ out' = IF r.ok THEN out
                                  ELSE Append(out, <<"error", "Error creating directory">>)
                /\ UNCHANGED <<pc, steps>>
    /\ UNCHANGED <<airInstalled, userKnown, baseInput, expandedBasePath, projectName,
                   basePath, fsFiles, f, cmds, stdin, run, start>>

\* createDirectoriesAndFiles, lines 40-48: the range loop takes the keys of dirs
\* in an order Go leaves unspecified, and makes the directory of the one it takes
DirsMkdirAll ==
    /\ pc = "PopulateDirs"
    /\ at = "loop"
    /\ \E dir \in todo :
          /\ dirPath' = Join(basePath, dir)
          /\ \E r \in MkdirAll(dirPath') :
                /\ fsDirs' = r.dirs
                /\ \/ /\ r.ok
                      /\ todo' = todo \ {dir}
                      /\ pending' = DirSpec[dir]
                      /\ at' = IF pending' = <<>> THEN "loop" ELSE "create"
                      /\ UNCHANGED <<pc, steps, out>>
                   \/ /\ ~r.ok
                      /\ Fatal(out, "Error creating directory")
                      /\ UNCHANGED <<todo, pending, at>>
    /\ UNCHANGED <<airInstalled, userKnown, baseInput, expandedBasePath, projectName,
                   basePath, fsFiles, f, cmds, stdin, run, start>>

\* createDirectoriesAndFiles, lines 65-69: the range loop is over, the loop over
\* dockerFiles starts
DirsDone ==
    /\ pc = "PopulateDirs"
    /\ at = "loop"
    /\ todo = {}
    /\ Enter("PopulateRootFiles")
    /\ pending' = dockerFiles
    /\ at' = "create"
    /\ UNCHANGED <<out, airInstalled, userKnown, baseInput, expandedBasePath, projectName,
                   basePath, fsDirs, fsFiles, todo, dirPath, f, cmds, stdin, run, start>>

\* lines 52-58 and 70-76: os.Create of the next file of the loop, in directory dir
CreateNext(dir) ==
    /\ at = "create"
    /\ LET filePath == Join(dir, Head(pending))
       IN  \E r \in Create(filePath) :
              /\ fsFiles' = r.files
              /\ \/ /\ r.ok
                    /\ f' = filePath
                    /\ at' = "write"
                    /\ UNCHANGED <<pc, steps, out>>
                 \/ /\ ~r.ok
                    /\ Fatal(out, "Error creating file")
                    /\ UNCHANGED <<f, at>>
    /\ UNCHANGED <<airInstalled, userKnown, baseInput, expandedBasePath, projectName,
                   basePath, fsDirs, todo, dirPath, pending, cmds, stdin, run, start>>

\* the inner loop of lines 51-64 goes on, or hands back to the range loop
AfterDirFile(left) ==
    /\ at' = IF left = <<>> THEN "loop" ELSE "create"
    /\ UNCHANGED <<pc, steps>>

\* variant with a fault: main returns without calling initializeGoMod
AfterRootFileSkipsModule(left) ==
    IF left = <<>>
    THEN Enter("Done") /\ at' = "loop"
    ELSE at' = "create" /\ UNCHANGED <<pc, steps>>

\* the loop of lines 69-82 goes on, or createDirectoriesAndFiles returns and main
\* calls initializeGoMod (line 205)
AfterRootFile(left) ==
    IF left = <<>>
    THEN Enter("InitModule") /\ at' = "loop"
    ELSE at' = "create" /\ UNCHANGED <<pc, steps>>

\* variant with a fault: a template that cannot be read is skipped
WriteNextSkipsUnreadable(rootLoop) ==
    /\ at = "write"
    /\ LET templateFileName == getTemplateFileName(Head(pending))
       IN  \E rd \in ReadFile(templateFileName) :
              \E wr \in Write(f, rd.content) :
                 /\ fsFiles' = wr.files
                 /\ \/ /\ ~wr.ok
                       /\ Fatal(out, "Error writing content to file")
                       /\ UNCHANGED <<pending, at>>
                    \/ /\ wr.ok
                       /\ pending' = Tail(pending)
                       /\ IF rootLoop THEN AfterRootFile(pending')
                                      ELSE AfterDirFile(pending')
                       /\ out' = out
    /\ UNCHANGED <<airInstalled, userKnown, baseInput, expandedBasePath, projectName,
                   basePath, fsDirs, todo, dirPath, f, cmds, stdin, run, start>>

\* writeContentFromTemplate, lines 105-117, of the file just opened, and the
\* loop's step to its next file
WriteNext(rootLoop) ==
    /\ at = "write"
    /\ LET templateFileName == getTemplateFileName(Head(pending))
       IN  \E rd \in ReadFile(templateFileName) :
              \/ /\ ~rd.ok
                 /\ Fatal(out, "Error reading template file")
                 /\ UNCHANGED <<fsFiles, pending, at>>
              \/ /\ rd.ok
                 /\ \E wr \in Write(f, rd.content) :
                       /\ fsFiles' = wr.files
                       /\ \/ /\ ~wr.ok
                             /\ Fatal(out, "Error writing content to file")
                             /\ UNCHANGED <<pending, at>>
                          \/ /\ wr.ok
                             /\ pending' = Tail(pending)
                             /\ IF rootLoop THEN AfterRootFile(pending')
                                            ELSE AfterDirFile(pending')
                             /\ out' = out
    /\ UNCHANGED <<airInstalled, userKnown, baseInput, expandedBasePath, projectName,
                   basePath, fsDirs, todo, dirPath, f, cmds, stdin, run, start>>

\* variant with a fault: the file is joined to basePath, not to dirPath
DirsCreateFileInBase == pc = "PopulateDirs" /\ CreateNext(basePath)

\* createDirectoriesAndFiles, lines 51-59
DirsCreateFile == pc = "PopulateDirs" /\ CreateNext(dirPath)

\* createDirectoriesAndFiles, lines 60-62
DirsWriteFile == pc = "PopulateDirs" /\ WriteNext(FALSE)

\* createDirectoriesAndFiles, lines 69-76
RootCreateFile == pc = "PopulateRootFiles" /\ CreateNext(basePath)

\* createDirectoriesAndFiles, lines 78-80
RootWriteFile == pc = "PopulateRootFiles" /\ WriteNext(TRUE)

\* runCommand: the command is spawned in dir and waited for; it exits zero, or
\* it fails to start or exits non-zero.  The outcome is the record added to cmds.
runCommand(dir, command, args) ==
    {[dir |-> dir, argv |-> <<command>> \o args, ok |-> ok] : ok \in BOOLEAN}

\* what a successful "go mod init <name>" leaves in its directory
GoMod(dir, name) == (Join(dir, <<"go.mod">>) :> <<"module", name>>) @@ fsFiles

\* variant with a fault: the error of "go mod init" is dropped
InitModuleIgnoresError ==
    /\ pc = "InitModule"
    /\ \E r \in runCommand(basePath, "go", <<"mod", "init", projectName>>) :
          /\ cmds' = Append(cmds, r)
          /\ fsFiles' = IF r.ok THEN GoMod(basePath, projectName) ELSE fsFiles
          /\ Enter("TidyModule")
          /\ out' = Append(out, <<"info", "Initializing Go module...">>)
    /\ UNCHANGED <<at, airInstalled, userKnown, baseInput, expandedBasePath, projectName,
                   basePath, fsDirs, todo, dirPath, pending, f, stdin, run, start>>

\* initializeGoMod, lines 134-140
InitModule ==
    /\ pc = "InitModule"
    /\ \E r \in runCommand(basePath, "go", <<"mod", "init", projectName>>) :
          /\ cmds' = Append(cmds, r)
          /\ \/ /\ r.ok
                /\ fsFiles' = GoMod(basePath, projectName)
                /\ Enter("TidyModule")
                /\ out' = Append(out, <<"info", "Initializing Go module...">>)
             \/ /\ ~r.ok
                /\ Fatal(Append(out, <<"info", "Initializing Go module...">>),
                         "Error running command")
                /\ fsFiles' = fsFiles
    /\ UNCHANGED <<at, airInstalled, userKnown, baseInput, expandedBasePath, projectName,
                   basePath, fsDirs, todo, dirPath, pending, f, stdin, run, start>>

\* initializeGoMod, lines 142-149, and main's return
TidyModule ==
    /\ pc = "TidyModule"
    /\ \E r \in runCommand(basePath, "go", <<"mod", "tidy">>) :
          /\ cmds' = Append(cmds, r)
          /\ \/ /\ r.ok
                /\ Enter("Done")
                /\ out' = out \o << <<"info", "Tidying up Go module dependencies...">>,
                                    <<"info", "Go module initialized successfully!">> >>
             \/ /\ ~r.ok
                /\ Fatal(Append(out, <<"info", "Tidying up Go module dependencies...">>),
                         "Error running command")
    /\ UNCHANGED <<at, airInstalled, userKnown, baseInput, expandedBasePath, projectName,
                   basePath, fsDirs, fsFiles, todo, dirPath, pending, f, stdin, run, start>>

\* the user starts the program again after a run that succeeded: a new process,
\* on the filesystem and in the environment the earlier runs left
Rerun ==
    /\ pc = "Done"
    /\ run < MaxRuns
    /\ run' = run + 1
    /\ start' = [dirs |-> fsDirs, files |-> fsFiles,
                 succeeded |-> start.succeeded \cup {<<baseInput, projectName>>}]
    /\ pc' = "ToolCheck"
    /\ at' = "loop"
    /\ steps' = <<"ToolCheck">>
    /\ out' = <<>>
    /\ baseInput' = <<>>
    /\ expandedBasePath' = <<>>
    /\ projectName' = <<>>
    /\ basePath' = <<>>
    /\ todo' = {}
    /\ dirPath' = <<>>
    /\ pending' = <<>>
    /\ f' = <<>>
    /\ cmds' = <<>>
    /\ stdin' = <<>>
    /\ UNCHANGED <<airInstalled, userKnown, fsDirs, fsFiles>>

\* one run of the program
Next ==
    \/ ensureAirInstalled
    \/ CollectBasePath
    \/ CollectProjectName
    \/ CreateBaseDir
    \/ DirsMkdirAll
    \/ DirsCreateFile
    \/ DirsWriteFile
    \/ DirsDone
    \/ RootCreateFile
    \/ RootWriteFile
    \/ InitModule
    \/ TidyModule

Spec == Init /\ [][Next]_vars

\* runs of the program one after the other
NextRerun == Next \/ Rerun

SpecRerun == Init /\ [][NextRerun]_vars

----------------------------------------------------------------------------
(* vocabulary of the properties *)

Entered(step) == \E i \in 1..Len(steps) : steps[i] = step

\* the step has been entered and left
Passed(step) == Entered(step) /\ pc # step

\* the run ended with a fatal error in the given step
AbortedAt(step) ==
    /\ pc = "Aborted"
    /\ Len(steps) >= 2
    /\ steps[Len(steps) - 1] = step

\* the text of the line the console shows last
LastText(console) == IF console = <<>> THEN "" ELSE Last(console)[2]

FsUnchanged == fsDirs = start.dirs /\ fsFiles = start.files

IsPrefix(a, b) == Len(a) <= Len(b) /\ SubSeq(b, 1, Len(a)) = a

\* a line that is empty once its white space is trimmed
Blank(line) == \A i \in 1..Len(line) : line[i] \in {" ", "\t", "\n", "\r"}

\* the files of the layout, relative to <basePath>/<projectName>
ScaffoldLayout ==
    { <<"cmd", "/", "main.go">>,
      <<"pkg", "/", "router", "/", "router.go">>,
      <<"pkg", "/", "middleware", "/", "middleware.go">>,
      <<"pkg", "/", "handlers", "/", "handlers.go">>,
      <<"pkg", "/", "models", "/", "models.go">>,
      <<"pkg", "/", "db", "/", "db.go">>,
      <<"config", "/", "config.yaml">>,
      <<"Dockerfile">>,
      <<"docker-compose.yaml">>,
      <<"Makefile">>,
      <<".air.toml">> }

\* the files this run has created, the module descriptor of "go mod init" aside
ScaffoldFiles ==
    (DOMAIN fsFiles \ DOMAIN start.files) \ {Join(basePath, <<"go.mod">>)}

\* the template of a scaffold file, by its file name
TemplateOf(p) == getTemplateFileName(<<Last(p)>>)

----------------------------------------------------------------------------
(* C1 *)

StepOrderInv ==
    /\ pc = Last(steps)
    /\ \/ \E k \in 1..Len(Order) : steps = SubSeq(Order, 1, k)
       \/ \E k \in 1..(Len(Order) - 1) : steps = Append(SubSeq(Order, 1, k), "Aborted")
    /\ (pc = "Aborted") <=> (\E i \in 1..Len(out) : out[i][1] = "fatal")

\* C1: the steps of a run are entered in the order ToolCheck, CollectBasePath,
\* CollectProjectName, CreateBaseDir, PopulateDirs, PopulateRootFiles, InitModule,
\* TidyModule, Done, each at most once and none before the earlier ones succeeded;
\* a fatal error leads directly to Aborted, and exactly the aborted runs have one;
\* Done and Aborted have no successor.
C1_StepOrder ==
    /\ []StepOrderInv
    /\ [][/\ pc \notin {"Done", "Aborted"}
          /\ pc' # pc => steps' = Append(steps, pc')
          /\ pc' = pc => steps' = steps]_vars

C1_Witness == pc = "Done" /\ steps = Order

----------------------------------------------------------------------------
(* C2 *)

\* C2: when a run reaches the end of scaffold population, the files it has created
\* are exactly the eleven files of the layout under <basePath>/<projectName>, and
\* the content of each is the full content of the template getTemplateFileName
\* maps its name to.
C2_ScaffoldExact ==
    pc = "InitModule" =>
        LET created == DOMAIN fsFiles \ DOMAIN start.files
        IN  /\ basePath = Join(expandedBasePath, projectName)
            /\ created = {basePath \o <<"/">> \o rel : rel \in ScaffoldLayout}
            /\ Cardinality(created) = 11
            /\ \A p \in created :
                  /\ TemplateOf(p) \in DOMAIN start.files
                  /\ fsFiles[p] = start.files[TemplateOf(p)]
            /\ fsFiles[basePath \o <<"/", "config", "/", "config.yaml">>]
                   = start.files[<<"templates", "/", "config.txt">>]

C2_Witness ==
    /\ pc = "InitModule"
    /\ basePath = <<"/", "p", "/", "x">>
    /\ fsFiles[<<"/", "p", "/", "x", "/", "pkg", "/", "router", "/", "router.go">>]
           = <<<<"routes.txt", 1>>, <<"routes.txt", 2>>>>

----------------------------------------------------------------------------
(* C3 *)

\* C3: a run given the base path and project name of an earlier successful run
\* aborts at the base-directory step, and the filesystem, with all that the
\* earlier run produced, is as it was when the run started.
C3_RerunAborts ==
    <<baseInput, projectName>> \in start.succeeded =>
        /\ pc \in {"CreateBaseDir", "Aborted"}
        /\ pc = "Aborted" =>
              /\ AbortedAt("CreateBaseDir")
              /\ basePath \in fsDirs
              /\ \A rel \in ScaffoldLayout :
                    LET p == basePath \o <<"/">> \o rel
                    IN  /\ p \in DOMAIN fsFiles
                        /\ fsFiles[p] = fsFiles[TemplateOf(p)]
        /\ FsUnchanged
        /\ cmds = <<>>

C3_Witness ==
    /\ run = 2
    /\ <<baseInput, projectName>> \in start.succeeded
    /\ AbortedAt("CreateBaseDir")
    /\ Join(basePath, <<"go.mod">>) \in DOMAIN fsFiles

----------------------------------------------------------------------------
(* C4 *)

CreationErrors == {"Error creating directory", "Error creating file"}

\* C4: a step of scaffold population that reports a directory or file creation
\* error ends the run: the run is Aborted, no command has been run, every
\* directory and file that was on disk is still there with the same content, and
\* nothing happens after Aborted.
C4_CreationFailureStops ==
    /\ [][(out' # out /\ LastText(out') \in CreationErrors) =>
            /\ pc \in {"PopulateDirs", "PopulateRootFiles"}
            /\ pc' = "Aborted"
            /\ cmds' = <<>>
            /\ fsDirs \subseteq fsDirs'
            /\ \A p \in DOMAIN fsFiles : p \in DOMAIN fsFiles' /\ fsFiles'[p] = fsFiles[p]
            /\ DOMAIN fsFiles' = DOMAIN fsFiles]_vars
    /\ [][pc # "Aborted"]_vars

C4_Witness ==
    /\ AbortedAt("PopulateDirs")
    /\ LastText(out) = "Error creating file"
    /\ Cardinality(ScaffoldFiles) >= 2
    /\ \E p \in ScaffoldFiles : fsFiles[p] # <<>>

----------------------------------------------------------------------------
(* C5 *)

\* C5: a base-path line or a project-name line that is empty once trimmed aborts
\* the run at that prompt, with the filesystem as it was when the run started and
\* no command run.
C5_EmptyInputAborts ==
    /\ (Len(stdin) >= 1 /\ Blank(stdin[1])) =>
          /\ AbortedAt("CollectBasePath")
          /\ Len(stdin) = 1
          /\ FsUnchanged
          /\ cmds = <<>>
    /\ (Len(stdin) >= 2 /\ Blank(stdin[2])) =>
          /\ AbortedAt("CollectProjectName")
          /\ FsUnchanged
          /\ cmds = <<>>

C5_Witness ==
    /\ Len(stdin) = 2
    /\ stdin[1] = <<" ", "/", "p", " ", "\n">>
    /\ stdin[2] = <<"\n">>
    /\ pc = "Aborted"

----------------------------------------------------------------------------
(* C6 *)

\* C6: when 'air' is not on the search path the run aborts at the tool check: the
\* console shows the remediation message and nothing else (no prompt), no line
\* has been read, the filesystem is untouched and no command has been run.
C6_AirMissingAbortsFirst ==
    ~airInstalled =>
        /\ pc \in {"ToolCheck", "Aborted"}
        /\ pc = "ToolCheck" => out = <<>>
        /\ pc = "Aborted" => AbortedAt("ToolCheck") /\ out = << <<"fatal", AirInstallHint>> >>
        /\ \A i \in 1..Len(out) : out[i][1] # "prompt"
        /\ stdin = <<>>
        /\ FsUnchanged
        /\ cmds = <<>>

C6_Witness == ~airInstalled /\ pc = "Aborted" /\ LastText(out) = AirInstallHint

----------------------------------------------------------------------------
(* C7 *)

\* the path starts with "~/"
TildeSlash(path) == Len(path) >= 2 /\ path[1] = "~" /\ path[2] = "/"

\* C7 as claimed: ExpandTilde turns every path that starts with "~/" into the
\* current user's home directory joined with what follows the "~/", and returns
\* any other path, "~" and "~name/..." included, unchanged and without error.
C7_AlwaysExpands ==
    (Passed("CollectBasePath") /\ baseInput # <<>>) =>
        IF TildeSlash(baseInput)
        THEN expandedBasePath = Join(HomeDir, SubSeq(baseInput, 3, Len(baseInput)))
        ELSE ~AbortedAt("CollectBasePath") /\ expandedBasePath = baseInput

\* C7, amended: ExpandTilde turns a path that starts with "~/" into the current
\* user's home directory joined with what follows the "~/" when the current user
\* can be determined, and into "" with an error (the run aborts) when it cannot;
\* it returns any other path, "~" and "~name/..." included, unchanged and without
\* error.
C7_ExpandTilde ==
    (Passed("CollectBasePath") /\ baseInput # <<>>) =>
        /\ IF TildeSlash(baseInput)
           THEN IF userKnown
                THEN /\ ~AbortedAt("CollectBasePath")
                     /\ expandedBasePath
                            = Join(HomeDir, SubSeq(baseInput, 3, Len(baseInput)))
                ELSE /\ AbortedAt("CollectBasePath")
                     /\ expandedBasePath = <<>>
           ELSE /\ ~AbortedAt("CollectBasePath")
                /\ expandedBasePath = baseInput
        /\ (userKnown /\ baseInput = <<"~", "/">>) => expandedBasePath = <<"/", "h">>
        /\ (userKnown /\ baseInput = <<"~", "/", "p", "/", "/", ".">>)
              => expandedBasePath = <<"/", "h", "/", "p">>
        /\ baseInput = <<"~">> => expandedBasePath = <<"~">>
        /\ baseInput = <<"~", "p", "/">> => expandedBasePath = <<"~", "p", "/">>

C7_Witness ==
    /\ pc = "CollectProjectName"
    /\ baseInput = <<"~", "/", "p", "/", "/", ".">>
    /\ expandedBasePath = <<"/", "h", "/", "p">>

----------------------------------------------------------------------------
(* C8 *)

\* C8: "go mod tidy" is run only as the second command, after "go mod init
\* <projectName>" has run in the same directory and succeeded; when "go mod init"
\* fails the run is Aborted and no other command is run.
C8_TidyOnlyAfterInit ==
    /\ \A i \in 1..Len(cmds) :
          cmds[i].argv = <<"go", "mod", "tidy">> =>
              /\ i = 2
              /\ cmds[1].argv = <<"go", "mod", "init", projectName>>
              /\ cmds[1].ok
              /\ cmds[1].dir = basePath
              /\ cmds[2].dir = basePath
    /\ (Len(cmds) >= 1 /\ ~cmds[1].ok) => (pc = "Aborted" /\ Len(cmds) = 1)

C8_Witness == Len(cmds) = 2 /\ cmds[2].argv = <<"go", "mod", "tidy">> /\ cmds[2].ok

----------------------------------------------------------------------------
(* C9 *)

\* a project name of one path component
SingleName(name) ==
    /\ \A i \in 1..Len(name) : name[i] # "/"
    /\ name \notin {<<".">>, DotDot}

----------------------------------------------------------------------------
(* C10 *)

\* C10 as claimed: every scaffold file on disk is empty or holds its template's
\* full content, and at most one, the one created last, is empty.
C10_EmptyOrFull ==
    /\ \A p \in ScaffoldFiles :
          \/ fsFiles[p] = <<>>
          \/ /\ TemplateOf(p) \in DOMAIN start.files
             /\ fsFiles[p] = start.files[TemplateOf(p)]
    /\ \A p \in ScaffoldFiles : fsFiles[p] = <<>> => p = f

\* C10, amended: every scaffold file on disk holds a prefix of its template's
\* content, and every one but the file created last holds all of it; after a
\* template could not be read the run is Aborted and the file created last is
\* on disk, empty.
C10_PrefixOfTemplate ==
    /\ \A p \in ScaffoldFiles :
          IF TemplateOf(p) \in DOMAIN start.files
          THEN /\ IsPrefix(fsFiles[p], start.files[TemplateOf(p)])
               /\ p # f => fsFiles[p] = start.files[TemplateOf(p)]
          ELSE p = f /\ fsFiles[p] = <<>>
    /\ LastText(out) = "Error reading template file" =>
          /\ pc = "Aborted"
          /\ f \in ScaffoldFiles
          /\ fsFiles[f] = <<>>

C10_Witness ==
    /\ pc = "Aborted"
    /\ LastText(out) = "Error reading template file"
    /\ TemplateOf(f) \in DOMAIN start.files
    /\ start.files[TemplateOf(f)] # <<>>
    /\ fsFiles[f] = <<>>
    /\ Cardinality(ScaffoldFiles) >= 3

====
